---- MODULE Spec2Model ----
(***************************************************************************)
(* Bot Monitoring Dashboard: the hourly matrix builder                     *)
(* (data_processing/processors.py, create_hourly_matrix) as a state        *)
(* machine over the caller's record table.                                 *)
(*                                                                         *)
(* A timestamp is modelled as a whole number of hours since a midnight, so *)
(* that its hour-of-day is t % 24 and later timestamps are larger numbers. *)
(***************************************************************************)
EXTENDS Integers, Sequences, FiniteSets, TLC

\* ---------------------------------------------------------------- bounds
\* Longest record table handed to the builder.
MaxRecs == 2
\* Largest max_rows argument tried.
MaxRowsArg == 2
\* Longest record table of the runs that call the builder twice.
MaxRecsTwice == 1

\* ------------------------------------------------------ program constants
HoursPerDay == 24

STATUS_PRIORITY ==
    ("Failed" :> 100) @@ ("Error" :> 100) @@ ("TimedOut" :> 100) @@
    ("Running" :> 80) @@ ("InProgress" :> 80) @@ ("Started" :> 80) @@
    ("Succeeded" :> 60) @@ ("Completed" :> 60) @@ ("Done" :> 60) @@
    ("Skipped" :> 40) @@ ("Cancelled" :> 30) @@ ("Canceled" :> 30) @@
    ("Suspended" :> 20) @@ ("Paused" :> 20) @@ ("No Run" :> 0)

\* STATUS_PRIORITY.get(s, 0)
StatusPriorityGet(s) ==
    IF s \in DOMAIN STATUS_PRIORITY THEN STATUS_PRIORITY[s] ELSE 0

\* Variant: list(range(1, 25))
HoursList_FromOne == [i \in 1..HoursPerDay |-> i]

\* hours = list(range(24))
HoursList == [i \in 1..HoursPerDay |-> i - 1]

\* required_columns of create_hourly_matrix
required_columns ==
    {"display_name", "automation_project", "taskstatus", "hour", "datetimestarted"}

\* ------------------------------------------------------------ input space
\* The display names of the model, listed in ascending string order (the
\* order in which a pandas groupby enumerates its groups).
KeyOrder == <<"Ann | Finance | Invoices", "Ann | Finance | Reports", "Bob | Ops | Backup">>

DisplayNames == {KeyOrder[i] : i \in DOMAIN KeyOrder}

KeyRank(k) == CHOOSE i \in DOMAIN KeyOrder : KeyOrder[i] = k

\* The project column of a record of the pipeline is the project of its flow,
\* the middle segment of its display name.
ProjectOfKey(k) == IF k = "Bob | Ops | Backup" THEN "Ops" ELSE "Finance"

StatusValues == {"Failed", "Error", "Running", "Succeeded"}

TimeValues == {1, 26}

ProjectFilters == {"All Projects", "Finance"}

StatusFilters == {"All Statuses", "Failed"}

\* Outcomes of the secondary validation pass.
Verdicts == {"accept", "repair", "reject", "raise"}

\* The calls tried: every filter pair with an accepting validation pass, and
\* every other outcome of the pass on the unfiltered table.
CallArgs ==
    {[selected_project |-> p, selected_status |-> s, max_rows |-> m, verdict |-> "accept"] :
        p \in ProjectFilters, s \in StatusFilters, m \in 1..MaxRowsArg}
    \cup {[selected_project |-> "All Projects", selected_status |-> "All Statuses",
           max_rows |-> m, verdict |-> v] : m \in 1..MaxRowsArg, v \in Verdicts}

\* pd.to_datetime(...).dt.hour
HourOf(t) == t % HoursPerDay

Range(s) == {s[i] : i \in DOMAIN s}

Min(a, b) == IF a <= b THEN a ELSE b

\* the element of a one-element set (binds a computed value once)
The(S) == CHOOSE x \in S : TRUE

\* One row of the table: a map from the table's columns to values.
MkRow(cols, k, s, t) ==
    [c \in cols |->
        CASE c = "display_name" -> k
          [] c = "automation_project" -> ProjectOfKey(k)
          [] c = "taskstatus" -> s
          [] c = "datetimestarted" -> t
          [] c = "hour" -> HourOf(t)]

RowsOver(cols) ==
    {MkRow(cols, k, s, t) : k \in DisplayNames, s \in StatusValues, t \in TimeValues}

\* Hours outside 0..23, which only a table not made by the normalizer carries.
OutOfRangeHours == {-1, HoursPerDay}

OutOfRangeRows ==
    {[MkRow(required_columns, k, s, t) EXCEPT !["hour"] = h] :
        k \in DisplayNames, s \in StatusValues, t \in TimeValues, h \in OutOfRangeHours}

TablesOver(cols, n) ==
    UNION {[1..len -> RowsOver(cols)] : len \in 0..n}

NoneDF == [kind |-> "None", columns |-> {}, rows |-> <<>>]

DataFrame(cols, rows) == [kind |-> "DataFrame", columns |-> cols, rows |-> rows]

\* Tables the builder is called with: complete ones of up to n records, and
\* one-record ones with an hour out of range or that lack the hour column or a
\* required column.
InputTables(n) ==
    {NoneDF}
    \cup {DataFrame(required_columns, rows) : rows \in TablesOver(required_columns, n)}
    \cup {DataFrame(required_columns, <<r>>) : r \in OutOfRangeRows}
    \cup {DataFrame(required_columns \ {"hour"}, rows) :
             rows \in TablesOver(required_columns \ {"hour"}, 1)}
    \cup {DataFrame(required_columns \ {"display_name"}, rows) :
             rows \in TablesOver(required_columns \ {"display_name"}, 1)}
    \cup {DataFrame(required_columns \ {"hour", "datetimestarted"}, rows) :
             rows \in TablesOver(required_columns \ {"hour", "datetimestarted"}, 1)}

\* ------------------------------------------------ create_hourly_matrix
\* df is None or df.empty
IsEmptyInput(df) == df.kind = "None" \/ Len(df.rows) = 0

\* if 'hour' not in df.columns: df['hour'] = pd.to_datetime(df['datetimestarted']).dt.hour
\* Reading df['datetimestarted'] raises KeyError when that column is absent.
HourColumnRaises(df) ==
    "hour" \notin df.columns /\ "datetimestarted" \notin df.columns

\* Variant: the hour column is rewritten in place on every call, one hour on.
WithHourColumn_ShiftInPlace(df) ==
    DataFrame(df.columns \cup {"hour"},
              [i \in DOMAIN df.rows |->
                  [c \in df.columns \cup {"hour"} |->
                      IF c = "hour"
                      THEN IF "hour" \in df.columns
                           THEN HourOf(df.rows[i]["hour"] + 1)
                           ELSE HourOf(df.rows[i]["datetimestarted"] + 1)
                      ELSE df.rows[i][c]]])

WithHourColumn(df) ==
    IF "hour" \in df.columns
    THEN df
    ELSE DataFrame(df.columns \cup {"hour"},
                   [i \in DOMAIN df.rows |->
                       [c \in df.columns \cup {"hour"} |->
                           IF c = "hour" THEN HourOf(df.rows[i]["datetimestarted"])
                                         ELSE df.rows[i][c]]])

\* missing_columns = required_columns - set(df.columns)
missing_columns(df) == required_columns \ df.columns

\* mask &= (df['automation_project'] == selected_project)
ProjectMask(r, selected_project) ==
    selected_project = "All Projects" \/ r["automation_project"] = selected_project

\* mask &= (df['taskstatus'] == selected_status)
StatusMask(r, selected_status) ==
    selected_status = "All Statuses" \/ r["taskstatus"] = selected_status

\* Variant: the two masks are or-ed.
Mask_Either(r, selected_project, selected_status) ==
    \/ selected_project # "All Projects" /\ r["automation_project"] = selected_project
    \/ selected_status # "All Statuses" /\ r["taskstatus"] = selected_status
    \/ selected_project = "All Projects" /\ selected_status = "All Statuses"

Mask(r, selected_project, selected_status) ==
    ProjectMask(r, selected_project) /\ StatusMask(r, selected_status)

\* filtered_df = df[mask].copy()
filtered_df(rows, selected_project, selected_status) ==
    SelectSeq(rows, LAMBDA r : Mask(r, selected_project, selected_status))

\* the rows of one display_name group, in input order
GroupRows(rows, name) == SelectSeq(rows, LAMBDA r : r["display_name"] = name)

CountStatus(x, s) == Cardinality({i \in DOMAIN x : x[i]["taskstatus"] = s})

\* 'taskstatus': lambda x: (x == 'Failed').sum() * 100 + (x == 'Running').sum() * 10 + len(x)
NotabilityScore(x) ==
    CountStatus(x, "Failed") * 100 + CountStatus(x, "Running") * 10 + Len(x)

\* 'datetimestarted': 'max'
MaxStarted(x) ==
    CHOOSE t \in {x[i]["datetimestarted"] : i \in DOMAIN x} :
        \A i \in DOMAIN x : x[i]["datetimestarted"] <= t

\* filtered_df.groupby('display_name').agg({...}): one line per group, the
\* groups in ascending order of display_name.
GroupNames(rows) ==
    SelectSeq(KeyOrder, LAMBDA k : \E i \in DOMAIN rows : rows[i]["display_name"] = k)

GroupAgg(rows) ==
    LET names == GroupNames(rows)
    IN  [g \in DOMAIN names |->
            [display_name |-> names[g],
             taskstatus |-> NotabilityScore(GroupRows(rows, names[g])),
             datetimestarted |-> MaxStarted(GroupRows(rows, names[g]))]]

\* sort_values(['taskstatus', 'datetimestarted'], ascending=[False, False]):
\* a sorts strictly before b
\* Variant: the tie-break is ascending (oldest group first).
SortsBefore_OldestFirst(a, b) ==
    \/ a.taskstatus > b.taskstatus
    \/ a.taskstatus = b.taskstatus /\ a.datetimestarted < b.datetimestarted

SortsBefore(a, b) ==
    \/ a.taskstatus > b.taskstatus
    \/ a.taskstatus = b.taskstatus /\ a.datetimestarted > b.datetimestarted

\* insert x behind every line it does not sort strictly before (stable)
RECURSIVE InsertLine(_, _)
InsertLine(sorted, x) ==
    IF sorted = <<>> THEN <<x>>
    ELSE IF SortsBefore(x, Head(sorted)) THEN <<x>> \o sorted
    ELSE <<Head(sorted)>> \o InsertLine(Tail(sorted), x)

RECURSIVE SortValues(_)
SortValues(lines) ==
    IF lines = <<>> THEN <<>>
    ELSE InsertLine(SortValues(SubSeq(lines, 1, Len(lines) - 1)), lines[Len(lines)])

\* Variant: .tail(max_rows)
HeadRows_Tail(lines, max_rows) ==
    SubSeq(lines, Len(lines) - Min(max_rows, Len(lines)) + 1, Len(lines))

\* .head(max_rows), for max_rows >= 0
HeadRows(lines, max_rows) == SubSeq(lines, 1, Min(max_rows, Len(lines)))

\* .index.tolist()
display_names_of(rows, max_rows) ==
    LET top == HeadRows(SortValues(GroupAgg(rows)), max_rows)
    IN  [i \in DOMAIN top |-> top[i].display_name]

\* max(x, key=lambda s: STATUS_PRIORITY.get(s, 0)): the first maximal element
\* Variant: a later element of equal priority replaces the best so far.
RECURSIVE MaxByPriority_LastMaximal(_, _)
MaxByPriority_LastMaximal(x, best) ==
    IF x = <<>> THEN best
    ELSE IF StatusPriorityGet(Head(x)) >= StatusPriorityGet(best)
         THEN MaxByPriority_LastMaximal(Tail(x), Head(x))
         ELSE MaxByPriority_LastMaximal(Tail(x), best)

RECURSIVE MaxByPriority(_, _)
MaxByPriority(x, best) ==
    IF x = <<>> THEN best
    ELSE IF StatusPriorityGet(Head(x)) > StatusPriorityGet(best)
         THEN MaxByPriority(Tail(x), Head(x))
         ELSE MaxByPriority(Tail(x), best)

DominantStatus(x) == MaxByPriority(Tail(x), Head(x))

\* the taskstatus values of one (display_name, hour) group, in input order
CellStatuses(rows, name, hour) ==
    LET cell == SelectSeq(rows, LAMBDA r : r["display_name"] = name /\ r["hour"] = hour)
    IN  [i \in DOMAIN cell |-> cell[i]["taskstatus"]]

\* filtered_df[filtered_df['display_name'].isin(display_names)]
\*     .groupby(['display_name', 'hour'])['taskstatus'].agg(...).to_dict()
status_data(rows, display_names) ==
    [p \in {<<rows[i]["display_name"], rows[i]["hour"]>> :
              i \in {j \in DOMAIN rows : rows[j]["display_name"] \in Range(display_names)}} |->
        DominantStatus(CellStatuses(rows, p[1], p[2]))]

\* the hours of the groups of data that the fill loop writes into the row of name
FilledHours(data, names, name) ==
    {p[2] : p \in {q \in DOMAIN data :
                      /\ q[1] = name
                      /\ q[1] \in names
                      /\ 0 <= q[2] /\ q[2] <= HoursPerDay - 1}}

\* one row: {hour: "No Run" for hour in hours}, then the assignments
\* bot_hour_status[name][hour] = status, which create the hour key when the
\* row does not have it yet
FilledRow(data, names, name) ==
    [hour \in FilledHours(data, names, name) |-> data[<<name, hour>>]]
        @@ [hour \in Range(HoursList) |-> "No Run"]

\* Variant: a row for every group of the filtered data, capped or not.
bot_hour_status_AllGroups(rows, display_names) ==
    The({[name \in Range(GroupNames(rows)) |-> FilledRow(data, Range(GroupNames(rows)), name)] :
            data \in {status_data(rows, GroupNames(rows))}})

\* bot_hour_status = {name: {hour: "No Run" ...} for name in display_names},
\* then the fill loop over status_data.items()
bot_hour_status(rows, display_names) ==
    The({[name \in Range(display_names) |-> FilledRow(data, Range(display_names), name)] :
            data \in {status_data(rows, display_names)}})

EmptyDict == [name \in {} |-> "No Run"]

Triple(matrix, names, hrs) == [matrix |-> matrix, names |-> names, hours |-> hrs]

\* Variant: return {}, [], []
EmptyResult_NoHours == Triple(EmptyDict, <<>>, <<>>)

\* return {}, [], hours
EmptyResult == Triple(EmptyDict, <<>>, HoursList)

\* ------------------------------------------------ validate_matrix_data
\* The validation pass of data_processing/validators.py.  It accepts a
\* structure, or rejects it and supplies a corrected one, or rejects it
\* without one, or raises.  The corrected structure keeps the listed keys that
\* have a row, each row completed to the 24 hours.
RepairedData(matrix, names, hrs) ==
    LET kept == SelectSeq(names, LAMBDA n : n \in DOMAIN matrix)
    IN  Triple([n \in Range(kept) |->
                   [h \in Range(HoursList) |->
                       IF h \in DOMAIN matrix[n] THEN matrix[n][h] ELSE "No Run"]],
               kept, HoursList)

validate_matrix_data(matrix, names, hrs, verdict) ==
    [raised |-> verdict = "raise",
     is_valid |-> verdict = "accept",
     usable |-> verdict \in {"accept", "repair"},
     validated_data |->
        IF verdict = "repair" THEN RepairedData(matrix, names, hrs)
        ELSE Triple(matrix, names, hrs)]

\* lines 290-317: the builder's handling of the validation pass
\* Variant: the handler answers like the outer one, return {}, [], hours
ValidationFaultReturn_Empty(matrix, names, hrs) == EmptyResult

\*   except Exception: return bot_hour_status, display_names, hours
ValidationFaultReturn(matrix, names, hrs) == Triple(matrix, names, hrs)

\*   logger.warning("Falling back to pre-validation data")
FallbackReturn(matrix, names, hrs) == Triple(matrix, names, hrs)

\* if not display_names: recover the list from the keys of bot_hour_status
RecoveredNames(matrix, names) ==
    IF names = <<>> /\ DOMAIN matrix # {}
    THEN SelectSeq(KeyOrder, LAMBDA k : k \in DOMAIN matrix)
    ELSE names

ValidatedReturn(matrix, names0, hrs, verdict) ==
    LET names == RecoveredNames(matrix, names0)
        v == validate_matrix_data(matrix, names, hrs, verdict)
    IN  IF v.raised
        THEN [path |-> "validation_fault", ret |-> ValidationFaultReturn(matrix, names, hrs)]
        ELSE IF ~v.is_valid
        THEN IF v.usable
             THEN [path |-> "repaired", ret |-> v.validated_data]
             ELSE [path |-> "fallback", ret |-> FallbackReturn(matrix, names, hrs)]
        ELSE [path |-> "validated", ret |-> v.validated_data]

\* What the locals hold on a path that returns before they are computed.
NoLocals == [filtered_df |-> <<>>, agg |-> <<>>, display_names |-> <<>>,
             bot_hour_status |-> EmptyDict]

\* The whole call: the table as the call leaves it, the return path, the
\* returned triple and the locals.
create_hourly_matrix(df, selected_project, selected_status, max_rows, verdict) ==
    IF IsEmptyInput(df)
    THEN [df |-> df, path |-> "empty_input", ret |-> EmptyResult, locals |-> NoLocals]
    ELSE IF HourColumnRaises(df)
    THEN [df |-> df, path |-> "exception", ret |-> EmptyResult, locals |-> NoLocals]
    ELSE LET df1 == WithHourColumn(df)
         IN  IF missing_columns(df1) # {}
             THEN [df |-> df1, path |-> "missing_columns", ret |-> EmptyResult,
                   locals |-> NoLocals]
             ELSE LET rows == filtered_df(df1.rows, selected_project, selected_status)
                  IN  IF rows = <<>>
                      THEN [df |-> df1, path |-> "no_data_after_filter",
                            ret |-> EmptyResult,
                            locals |-> [NoLocals EXCEPT !.filtered_df = rows]]
                      ELSE LET names == display_names_of(rows, max_rows)
                               matrix == bot_hour_status(rows, names)
                               out == ValidatedReturn(matrix, names, HoursList, verdict)
                           IN  [df |-> df1, path |-> out.path, ret |-> out.ret,
                                locals |-> [filtered_df |-> rows,
                                            agg |-> GroupAgg(rows),
                                            display_names |-> names,
                                            bot_hour_status |-> matrix]]

\* ================================================== extract_project_name
\* A Python string is modelled as the sequence of its characters.

UpperLetters ==
    <<"A", "B", "C", "D", "E", "F", "G", "H", "I", "J", "K", "L", "M",
      "N", "O", "P", "Q", "R", "S", "T", "U", "V", "W", "X", "Y", "Z">>

LowerLetters ==
    <<"a", "b", "c", "d", "e", "f", "g", "h", "i", "j", "k", "l", "m",
      "n", "o", "p", "q", "r", "s", "t", "u", "v", "w", "x", "y", "z">>

\* the least number of a non-empty set
Least(S) == CHOOSE i \in S : \A j \in S : i <= j

\* the greatest number of a non-empty set
Greatest(S) == CHOOSE i \in S : \A j \in S : j <= i

\* [A-Z], str.isupper() of one character
IsUpperChar(c) == c \in Range(UpperLetters)

\* [a-z]
IsLowerChar(c) == c \in Range(LowerLetters)

\* [A-Za-z]
IsAlphaChar(c) == IsUpperChar(c) \/ IsLowerChar(c)

\* \s, and the characters str.strip() and str.split() remove
IsSpaceChar(c) == c = " "

\* a character of SPLIT_PATTERN, [_\s-]
IsSplitChar(c) == c = "_" \/ IsSpaceChar(c) \/ c = "-"

\* str.upper() of one character
ToUpperTable ==
    [c \in Range(LowerLetters) |->
        UpperLetters[CHOOSE i \in DOMAIN LowerLetters : LowerLetters[i] = c]]

UpperChar(c) == IF c \in DOMAIN ToUpperTable THEN ToUpperTable[c] ELSE c

\* str.lower() of one character
ToLowerTable ==
    [c \in Range(UpperLetters) |->
        LowerLetters[CHOOSE i \in DOMAIN UpperLetters : UpperLetters[i] = c]]

LowerChar(c) == IF c \in DOMAIN ToLowerTable THEN ToLowerTable[c] ELSE c

\* s.upper()
StrUpper(s) == [i \in 1..Len(s) |-> UpperChar(s[i])]

\* s[i:].startswith(t)
StartsAt(s, t, i) ==
    /\ i + Len(t) - 1 <= Len(s)
    /\ \A j \in 1..Len(t) : s[i + j - 1] = t[j]

\* s.find(t), counted from 1; 0 when t does not occur
StrFind(s, t) ==
    IF \E i \in 1..Len(s) : StartsAt(s, t, i)
    THEN Least({i \in 1..Len(s) : StartsAt(s, t, i)})
    ELSE 0

\* t in s
StrContains(s, t) == \E i \in 1..Len(s) : StartsAt(s, t, i)

\* s.strip()
StrStrip(s) ==
    LET keep == {i \in 1..Len(s) : ~IsSpaceChar(s[i])}
    IN  IF keep = {} THEN <<>>
        ELSE SubSeq(s, Least(keep), Greatest(keep))

\* s.split(t)[0]: the text before the first occurrence of t, all of s when
\* t does not occur
BeforeFirst(s, t) ==
    IF StrContains(s, t) THEN SubSeq(s, 1, StrFind(s, t) - 1) ELSE s

\* last position of the run of characters satisfying Test that starts at i
\* (i - 1 when s[i] does not satisfy it)
RunEnd(s, i, Test(_)) ==
    LET stops == {j \in i..Len(s) : ~Test(s[j])}
    IN  IF stops = {} THEN Len(s) ELSE Least(stops) - 1

\* SPLIT_PATTERN.split(s): the segments between separator characters, the
\* empty ones included
RECURSIVE RegexSplit(_)
RegexSplit(s) ==
    LET seps == {i \in 1..Len(s) : IsSplitChar(s[i])}
    IN  IF seps = {} THEN <<s>>
        ELSE <<SubSeq(s, 1, Least(seps) - 1)>>
             \o RegexSplit(SubSeq(s, Least(seps) + 1, Len(s)))

Unknown == <<"U", "n", "k", "n", "o", "w", "n">>

\* COMMON_IDENTIFIERS, in the order of the literal
IdentifierList ==
    << <<"A", "M", "Z">>, <<"A", "W", "S">>, <<"C", "2", "D">>, <<"A", "Z">>,
       <<"W", "F">>, <<"P", "S">>, <<"V", "P">>, <<"B", "I">> >>

COMMON_IDENTIFIERS == Range(IdentifierList)

Reverse(q) == [i \in 1..Len(q) |-> q[Len(q) + 1 - i]]

\* Orders in which a process may enumerate the frozenset: the order follows
\* the string hashes, which are salted anew in every interpreter process.
IdOrders == {IdentifierList, Reverse(IdentifierList)}

\* Pattern 1: ' - ' in flow_name -> flow_name.split(' - ')[0].strip()
HyphenSep == <<" ", "-", " ">>

\* Pattern 2: '_' in flow_name -> flow_name.split('_')[0].strip()
UnderscoreSep == <<"_">>

\* Pattern 3: CAMEL_CASE_PATTERN.match(flow_name), ^([A-Z][a-z]+)
CamelMatches(s) == Len(s) >= 2 /\ IsUpperChar(s[1]) /\ IsLowerChar(s[2])

CamelGroup(s) == SubSeq(s, 1, RunEnd(s, 2, IsLowerChar))

\* Pattern 4: words = flow_name.split(); words[0] of a stripped string
FirstWord(s) == SubSeq(s, 1, RunEnd(s, 1, LAMBDA c : ~IsSpaceChar(c)))

FirstWordMatches(s) ==
    LET w == FirstWord(s) IN Len(w) > 2 /\ IsUpperChar(w[1])

\* Pattern 5: the first identifier, in enumeration order, that occurs in
\* flow_upper decides; the first part containing it is returned.  An
\* identifier none of whose parts contains it lets the loop go on.
IdentifierScan(s, order) ==
    LET parts == RegexSplit(s)
        holding(id) == {k \in DOMAIN parts : StrContains(StrUpper(parts[k]), id)}
        found == SelectSeq(order, LAMBDA id :
                     StrContains(StrUpper(s), id) /\ holding(id) # {})
    IN  IF found = <<>>
        THEN [matched |-> FALSE, part |-> <<>>]
        ELSE [matched |-> TRUE, part |-> parts[Least(holding(found[1]))]]

\* Pattern 6: ALPHA_SEQUENCE_PATTERN.search(flow_name), [A-Za-z]{3,}
AlphaStarts(s) ==
    {i \in 1..Len(s) : RunEnd(s, i, IsAlphaChar) - i + 1 >= 3}

AlphaGroup(s) ==
    LET i == Least(AlphaStarts(s)) IN SubSeq(s, i, RunEnd(s, i, IsAlphaChar))

\* Variant: the underscore rule tried before the ' - ' rule
Cascade_UnderscoreFirst(s, order) ==
    IF StrContains(s, UnderscoreSep) THEN StrStrip(BeforeFirst(s, UnderscoreSep))
    ELSE IF StrContains(s, HyphenSep) THEN StrStrip(BeforeFirst(s, HyphenSep))
    ELSE IF CamelMatches(s) THEN CamelGroup(s)
    ELSE IF FirstWordMatches(s) THEN FirstWord(s)
    ELSE LET scan == IdentifierScan(s, order)
         IN  IF scan.matched THEN scan.part
             ELSE IF AlphaStarts(s) # {} THEN AlphaGroup(s)
             ELSE Unknown

\* The cascade on the stripped name.
Cascade(s, order) ==
    IF StrContains(s, HyphenSep) THEN StrStrip(BeforeFirst(s, HyphenSep))
    ELSE IF StrContains(s, UnderscoreSep) THEN StrStrip(BeforeFirst(s, UnderscoreSep))
    ELSE IF CamelMatches(s) THEN CamelGroup(s)
    ELSE IF FirstWordMatches(s) THEN FirstWord(s)
    ELSE LET scan == IdentifierScan(s, order)
         IN  IF scan.matched THEN scan.part
             ELSE IF AlphaStarts(s) # {} THEN AlphaGroup(s)
             ELSE Unknown

\* A Python value handed to the function: its type and, for a str, its
\* characters.
Str(s) == [type |-> "str", chars |-> s]

NonStr(t) == [type |-> t, chars |-> <<>>]

\* The body of extract_project_name, lines 69-112.  Nothing in it raises on
\* a str, and the isinstance test returns before anything touches a value of
\* another type.
extract_body(flow_name, order) ==
    IF flow_name.type # "str" \/ StrStrip(flow_name.chars) = <<>>
    THEN Unknown
    ELSE Cascade(StrStrip(flow_name.chars), order)

\* hash(flow_name): the types whose instances have no hash
UnhashableTypes == {"list", "dict", "set"}

Hashable(v) == v.type \notin UnhashableTypes

EmptyCache == << >>

\* @lru_cache(maxsize=1000): the wrapper hashes the argument to build the
\* cache key before the body and its try block are entered; a hit returns
\* the stored label, a miss runs the body and stores its label.  (The runs
\* of the model make far fewer than maxsize calls, so nothing is evicted.)
lru_cache_call(cache, flow_name, order) ==
    IF ~Hashable(flow_name)
    THEN [raised |-> TRUE, label |-> <<>>, hit |-> FALSE, cache |-> cache]
    ELSE IF flow_name \in DOMAIN cache
    THEN [raised |-> FALSE, label |-> cache[flow_name], hit |-> TRUE, cache |-> cache]
    ELSE LET label == extract_body(flow_name, order)
         IN  [raised |-> FALSE, label |-> label, hit |-> FALSE,
              cache |-> (flow_name :> label) @@ cache]

\* ------------------------------------------- input space of the extractor
\* Longest flow name enumerated character by character.
MaxNameLen == 5

NameChars == {"P", "s", "v", " ", "-", "_"}

RECURSIVE StringsOfLen(_)
StringsOfLen(n) ==
    IF n = 0 THEN {<<>>}
    ELSE {Append(s, c) : s \in StringsOfLen(n - 1), c \in NameChars}

\* Names quoted in the documentation of the cascade.
ExampleNames ==
    { <<"A","M","Z","_","I","n","v","o","i","c","e","_","P","r","o","c","e","s","s","o","r">>,
      <<"F","i","n","a","n","c","e"," ","-"," ","D","a","i","l","y"," ","R","e","p","o","r","t">>,
      <<"x","y","z","1","2","3">> }

FlowNameStrings == UNION {StringsOfLen(n) : n \in 0..MaxNameLen} \cup ExampleNames

NonStringTypes == {"NoneType", "int", "float", "tuple", "list", "dict"}

FlowNameValues == {Str(s) : s \in FlowNameStrings} \cup {NonStr(t) : t \in NonStringTypes}

\* ============================================ process_data_for_dashboard
\* s.replace(old, ''): every occurrence of old removed, left to right
RECURSIVE StrRemove(_, _)
StrRemove(s, old) ==
    IF ~StrContains(s, old) THEN s
    ELSE SubSeq(s, 1, StrFind(s, old) - 1)
         \o StrRemove(SubSeq(s, StrFind(s, old) + Len(old), Len(s)), old)

\* s.title(): a letter that follows a letter is lowered, any other letter is
\* raised
StrTitle(s) ==
    [i \in 1..Len(s) |->
        IF i > 1 /\ IsAlphaChar(s[i - 1]) THEN LowerChar(s[i]) ELSE UpperChar(s[i])]

\* ' serviceaccount'
ServiceAccountSuffix == <<" ", "s", "e", "r", "v", "i", "c", "e", "a", "c", "c", "o", "u", "n", "t">>

\* processed_df['flowowner'].str.replace(' serviceaccount', '').str.title()
OwnerLabel(flowowner) == StrTitle(StrRemove(flowowner, ServiceAccountSuffix))

\* ' | '
KeySep == <<" ", "|", " ">>

\* f"{row['owner']} | {row['automation_project']} | {row['flowname']}"
DisplayNameOf(owner, automation_project, flowname) ==
    owner \o KeySep \o automation_project \o KeySep \o flowname

\* 'Other Cloud Flow'
OtherCloudFlow == <<"O", "t", "h", "e", "r", " ", "C", "l", "o", "u", "d", " ", "F", "l", "o", "w">>

\* What open('flow_mapping.json') and json.load give: no file (or one that
\* does not parse), or a dict from flow name to an entry with a project.
NoMappingFile == [loaded |-> FALSE, entries |-> << >>]

MappingFile(entries) == [loaded |-> TRUE, entries |-> entries]

\* lines 125-131: the mapping of the file, {} when it could not be loaded
LoadFlowMapping(file) == IF file.loaded THEN file.entries ELSE << >>

\* Variant: the flow name looked up as given, blanks included
get_project_name_Untrimmed(flow_mapping, flowname) ==
    IF flowname \in DOMAIN flow_mapping
    THEN flow_mapping[flowname].project
    ELSE OtherCloudFlow

\* get_project_name: flow_mapping.get(flow_key, {}).get('project', 'Other Cloud Flow')
get_project_name(flow_mapping, flowname) ==
    LET flow_key == StrStrip(flowname)
    IN  IF flow_key \in DOMAIN flow_mapping
        THEN flow_mapping[flow_key].project
        ELSE OtherCloudFlow

\* Variant: the status kept as it is
CoerceStatus_Keep(x) == x

\* lambda x: x if x in STATUS_PRIORITY else 'No Run'
CoerceStatus(x) == IF x \in DOMAIN STATUS_PRIORITY THEN x ELSE "No Run"

\* pd.to_datetime on the texts of the model: the timestamp, in hours since a
\* midnight, of a text that is a date; any other text makes it raise
TimestampTexts ==
    ("2024-01-01 01:00" :> 1) @@ ("2024-01-02 02:00" :> 26)

Parseable(x) == x \in DOMAIN TimestampTexts

\* pd.to_numeric(errors='coerce').fillna(0) on the texts of the model
NumericTexts == ("1" :> 1) @@ ("0" :> 0)

ToNumericOrZero(x) == IF x \in DOMAIN NumericTexts THEN NumericTexts[x] ELSE 0

\* np.select over triggertype
TriggerGroup(t) ==
    IF t = "manual" THEN "Manual"
    ELSE IF t = "Recurrence" THEN "Recurrence"
    ELSE "OtherTrigger"

\* processed_df[col] = ...: the column written in every row, added when new
SetColumn(frame, col, Value(_)) ==
    DataFrame(frame.columns \cup {col},
              [i \in 1..Len(frame.rows) |-> (col :> Value(frame.rows[i])) @@ frame.rows[i]])

\* pd.DataFrame()
EmptyFrame == DataFrame({}, <<>>)

\* Variant: processed_df = df, the caller's table itself
df_copy_Alias(df) == [frame |-> df, shared |-> TRUE]

\* processed_df = df.copy()
df_copy(df) == [frame |-> df, shared |-> FALSE]

\* Variant: the partly processed table returned
Caught_Partial(working) == [path |-> "exception", ret |-> working, working |-> working]

\* except Exception: return pd.DataFrame(), leaving the working table as the
\* failing statement found it
Caught(working) == [path |-> "exception", ret |-> EmptyFrame, working |-> working]

\* lines 141-196 on the working table; a column that is read and absent
\* raises KeyError, a text that is no date makes pd.to_datetime raise
process_columns(p0, flow_mapping) ==
    IF "flowname" \notin p0.columns THEN Caught(p0)
    ELSE LET p1 == SetColumn(p0, "automation_project",
                       LAMBDA r : get_project_name(flow_mapping, r["flowname"]))
    IN  IF "taskstatus" \notin p0.columns THEN Caught(p1)
    ELSE LET p2 == SetColumn(p1, "taskstatus", LAMBDA r : CoerceStatus(r["taskstatus"]))
    IN  IF \/ "datetimestarted" \notin p0.columns
           \/ \E i \in DOMAIN p0.rows : ~Parseable(p0.rows[i]["datetimestarted"])
        THEN Caught(p2)
    ELSE LET p3 == SetColumn(p2, "datetimestarted",
                       LAMBDA r : TimestampTexts[r["datetimestarted"]])
    IN  IF /\ "datetimecompleted" \in p0.columns
           /\ \E i \in DOMAIN p0.rows : ~Parseable(p0.rows[i]["datetimecompleted"])
        THEN Caught(p3)
    ELSE LET p4 == IF "datetimecompleted" \in p0.columns
                   THEN SetColumn(p3, "datetimecompleted",
                            LAMBDA r : TimestampTexts[r["datetimecompleted"]])
                   ELSE p3
             p5 == SetColumn(p4, "hour", LAMBDA r : HourOf(r["datetimestarted"]))
    IN  IF "flowowner" \notin p0.columns THEN Caught(p5)
    ELSE LET p6 == SetColumn(p5, "owner", LAMBDA r : OwnerLabel(r["flowowner"]))
             p7 == SetColumn(p6, "display_name",
                       LAMBDA r : DisplayNameOf(r["owner"], r["automation_project"],
                                                r["flowname"]))
             p8 == IF "triggertype" \in p0.columns
                   THEN SetColumn(p7, "trigger_group", LAMBDA r : TriggerGroup(r["triggertype"]))
                   ELSE p7
    IN  IF "wassuccessful" \notin p0.columns THEN Caught(p8)
    ELSE LET p9 == SetColumn(p8, "wassuccessful",
                       LAMBDA r : ToNumericOrZero(r["wassuccessful"]))
             p10 == SetColumn(p9, "success_rate", LAMBDA r : r["wassuccessful"] * 100)
             p11 == SetColumn(p10, "status_priority",
                        LAMBDA r : StatusPriorityGet(r["taskstatus"]))
    IN  [path |-> "processed", ret |-> p11, working |-> p11]

\* The whole call: the caller's table as the call leaves it, the return path
\* and the returned table.
process_data_for_dashboard(df, file) ==
    IF IsEmptyInput(df)
    THEN [df |-> df, path |-> "empty_input", ret |-> EmptyFrame]
    ELSE LET copy == df_copy(df)
             out == process_columns(copy.frame, LoadFlowMapping(file))
         IN  [df |-> IF copy.shared THEN out.working ELSE df,
              path |-> out.path, ret |-> out.ret]

\* ------------------------------------------- input space of the normalizer
\* Longest raw record table handed to the normalizer.
MaxRawRecs == 2

PROCESS_REQUIRED == {"flowname", "flowowner", "taskstatus", "datetimestarted", "wassuccessful"}

RawFlowNames == {<<"C">>, <<" ", "C">>, <<"c">>, <<"G", " ", "|", " ", "C">>}

RawOwners == {<<"a">>, <<"a", " ", "|", " ", "f">>, <<"b", "o", " ", "s", "e", "r", "v", "i", "c", "e", "a", "c", "c", "o", "u", "n", "t">>}

RawStatuses == {"Failed", "Succeeded", "Weird"}

RawStarted == {"2024-01-01 01:00", "2024-01-02 02:00", "not a date"}

RawSuccess == {"1", "0", "yes"}

RawTriggers == {"manual", "Recurrence", "Button"}

RawRow(f, o, s, t, w) ==
    [c \in PROCESS_REQUIRED |->
        CASE c = "flowname" -> f
          [] c = "flowowner" -> o
          [] c = "taskstatus" -> s
          [] c = "datetimestarted" -> t
          [] c = "wassuccessful" -> w]

BaseRawRow == RawRow(<<"C">>, <<"a">>, "Failed", "2024-01-01 01:00", "1")

\* Records that differ from the first one in their names or in one value.
RawRows ==
    {RawRow(f, o, "Failed", "2024-01-01 01:00", "1") : f \in RawFlowNames, o \in RawOwners}
    \cup {[BaseRawRow EXCEPT !["taskstatus"] = s] : s \in RawStatuses}
    \cup {[BaseRawRow EXCEPT !["datetimestarted"] = t] : t \in RawStarted}
    \cup {[BaseRawRow EXCEPT !["wassuccessful"] = w] : w \in RawSuccess}

Restrict(r, cols) == [c \in cols |-> r[c]]

\* Tables the normalizer is called with: none, complete ones of up to n
\* records, and one-record ones with a trigger type or without a required
\* column.
RawTables(n) ==
    {NoneDF}
    \cup UNION {{DataFrame(PROCESS_REQUIRED, rows) : rows \in [1..len -> RawRows]} : len \in 0..n}
    \cup {DataFrame(PROCESS_REQUIRED \cup {"triggertype"}, <<("triggertype" :> t) @@ BaseRawRow>>) :
             t \in RawTriggers}
    \cup {DataFrame(PROCESS_REQUIRED \ {c}, <<Restrict(BaseRawRow, PROCESS_REQUIRED \ {c})>>) :
             c \in PROCESS_REQUIRED}

\* flow_mapping.json of the model
MappingEntries ==
    (<<"C">> :> [project |-> <<"G">>]) @@ (<<"G", " ", "|", " ", "C">> :> [project |-> <<"F">>])

MappingFiles == {NoMappingFile, MappingFile(MappingEntries)}

\* ================================================== safe_dashboard_reload
\* Seconds are whole numbers; time.time() is the clock of the model.

\* refresh_debounce_time as initialize_session_state sets it
DefaultDebounceTime == 2

\* getattr(st.session_state, 'last_refresh_time', 0)
DefaultLastRefreshTime == 0

\* The Streamlit API the script runs on: only st.experimental_rerun, both
\* st.rerun and st.experimental_rerun, or only st.rerun.
StreamlitApis == {"legacy", "transition", "modern"}

\* hasattr(st, 'rerun')
HasRerun(api) == api \in {"transition", "modern"}

\* What the rerun call does: raises the script-control exception that ends
\* this script run and starts the next (it is no Exception, so no handler of
\* the function catches it), returns (no script run context), or fails.
RerunOutcomes == {"reruns", "returns", "RuntimeError", "ImportError", "Exception"}

RerunFails(o) == o \in {"RuntimeError", "ImportError", "Exception"}

\* What the call finds around it.
Env(api, rerun, js, spinner) ==
    [api |-> api, rerun |-> rerun, js |-> js, spinner |-> spinner]

Envs ==
    {Env(a, o, "ok", "ok") : a \in StreamlitApis, o \in RerunOutcomes}
    \cup {Env(a, "RuntimeError", "raises", "ok") : a \in StreamlitApis}
    \cup {Env("modern", "reruns", "ok", "raises")}

\* Variant: the finally block leaves the flag as it is
FinallyFlag_Keep(flag) == flag

\* finally: st.session_state.refresh_in_progress = False
FinallyFlag(flag) == FALSE

\* Variant: no debounce
WithinDebounce_Never(current_time, last_refresh_time, debounce_time) == FALSE

\* current_time - last_refresh_time < debounce_time
WithinDebounce(current_time, last_refresh_time, debounce_time) ==
    current_time - last_refresh_time < debounce_time

\* lines 129-143: the one rerun method called
RerunAttempts(e) ==
    IF HasRerun(e.api) THEN <<"st.rerun">> ELSE <<"st.experimental_rerun">>

\* lines 119-165, entered with the flag set: the session state when the
\* finally block is reached, the methods tried, and how the block was left
ReloadBody(ss, current_time, e) ==
    IF e.spinner = "raises"
    THEN [ss |-> ss, attempts |-> <<>>, path |-> "exception", effect |-> "none"]
    ELSE LET ss1 == [ss EXCEPT !.last_refresh = current_time]
             ss2 == [ss1 EXCEPT !.refresh_in_progress = FALSE]
         IN  IF e.rerun = "reruns"
             THEN [ss |-> ss2, attempts |-> RerunAttempts(e),
                   path |-> "rerun_issued", effect |-> "rerun"]
             ELSE IF e.rerun = "returns"
             THEN [ss |-> ss2, attempts |-> RerunAttempts(e),
                   path |-> "rerun_returned", effect |-> "none"]
             ELSE IF e.js = "ok"
             THEN [ss |-> ss2, attempts |-> RerunAttempts(e) \o <<"javascript">>,
                   path |-> "javascript_fallback", effect |-> "page_reload"]
             ELSE [ss |-> ss2, attempts |-> RerunAttempts(e) \o <<"javascript">>,
                   path |-> "manual_refresh_warning", effect |-> "none"]

\* The whole call on session state ss at time current_time.
safe_dashboard_reload(ss, current_time, e) ==
    LET out ==
            IF ss.refresh_in_progress
            THEN [ss |-> ss, attempts |-> <<>>, path |-> "skipped_in_progress",
                  effect |-> "none"]
            ELSE IF WithinDebounce(current_time, ss.last_refresh_time,
                                   ss.refresh_debounce_time)
            THEN [ss |-> ss, attempts |-> <<>>, path |-> "skipped_debounce",
                  effect |-> "none"]
            ELSE ReloadBody([ss EXCEPT !.refresh_in_progress = TRUE,
                                       !.last_refresh_time = current_time],
                            current_time, e)
    IN  [out EXCEPT !.ss.refresh_in_progress = FinallyFlag(out.ss.refresh_in_progress)]

\* ---------------------------------------- input space of the reload calls
\* time.time() when the model starts
StartClock == 10

\* Seconds the clock of the model runs for.
MaxElapsed == 4

\* Most calls of safe_dashboard_reload in a run.
MaxReloadCalls == 3

\* st.session_state after initialize_session_state; the flag is as the
\* session holds it when the first call is made.
SessionStates ==
    {[refresh_in_progress |-> f,
      last_refresh_time |-> DefaultLastRefreshTime,
      refresh_debounce_time |-> DefaultDebounceTime,
      last_refresh |-> StartClock] : f \in BOOLEAN}

\* ========================================================= main, lines 602-676
\* Longest raw record table of the runs of the dashboard pipeline.
MaxMainRecs == 1

\* s.lower()
StrLower(s) == [i \in 1..Len(s) |-> LowerChar(s[i])]

\* create_flow_mapper, load_flow_mapping: the mapping table made from
\* flow_mapping.json, its flow names in lower case; no row when the file
\* cannot be loaded
MappingDf(file) ==
    IF file.loaded
    THEN {[FlowName |-> StrLower(k), Project |-> file.entries[k].project] :
             k \in DOMAIN file.entries}
    ELSE {}

\* get_project_for_flow: the project of the first row whose flow name is,
\* letter case aside, the trimmed flow name (the tables of the model hold at
\* most one such row)
get_project_for_flow(flow_name, mapping_df) ==
    LET flow_name_lower == StrLower(StrStrip(flow_name))
        match == {row \in mapping_df : StrLower(row.FlowName) = flow_name_lower}
    IN  IF match # {} THEN (CHOOSE row \in match : TRUE).Project ELSE OtherCloudFlow

\* lines 623-627: automation_project derived again, display_name left alone
Rederive(processed, mapping_df) ==
    IF "flowname" \in processed.columns
    THEN SetColumn(processed, "automation_project",
             LAMBDA r : get_project_for_flow(r["flowname"], mapping_df))
    ELSE processed

\* the choices of a select box over a column, after its 'All ...' entry
ColumnValues(frame, col) == {frame.rows[i][col] : i \in DOMAIN frame.rows}

\* 'All Projects', 'All Owners'
AllProjects == <<"A", "l", "l", " ", "P", "r", "o", "j", "e", "c", "t", "s">>

AllOwners == <<"A", "l", "l", " ", "O", "w", "n", "e", "r", "s">>

\* lines 634-652: the projects of the select box, those of flow_mapping.json
\* and those of the records, with 'Other Cloud Flow' always offered
ProjectChoices(frame, file) ==
    {AllProjects, OtherCloudFlow}
    \cup (IF file.loaded THEN {file.entries[k].project : k \in DOMAIN file.entries} ELSE {})
    \cup ColumnValues(frame, "automation_project")

\* lines 661-667: the three filters; a selection of 'All Projects', 'All
\* Statuses' or 'All Owners' leaves its column unfiltered
ApplyFilters(frame, selected_project, selected_status, selected_owner) ==
    DataFrame(frame.columns,
        SelectSeq(frame.rows, LAMBDA r :
            /\ selected_project = AllProjects \/ r["automation_project"] = selected_project
            /\ selected_status = "All Statuses" \/ r["taskstatus"] = selected_status
            /\ selected_owner = AllOwners \/ r["owner"] = selected_owner))

\* ============================================ get_status_emoji, lines 48-79
\* The characters of the status values the matrix holds, the keys of
\* STATUS_PRIORITY.
StatusSpelling ==
    ("Failed" :> <<"F", "a", "i", "l", "e", "d">>) @@
    ("Error" :> <<"E", "r", "r", "o", "r">>) @@
    ("TimedOut" :> <<"T", "i", "m", "e", "d", "O", "u", "t">>) @@
    ("Running" :> <<"R", "u", "n", "n", "i", "n", "g">>) @@
    ("InProgress" :> <<"I", "n", "P", "r", "o", "g", "r", "e", "s", "s">>) @@
    ("Started" :> <<"S", "t", "a", "r", "t", "e", "d">>) @@
    ("Succeeded" :> <<"S", "u", "c", "c", "e", "e", "d", "e", "d">>) @@
    ("Completed" :> <<"C", "o", "m", "p", "l", "e", "t", "e", "d">>) @@
    ("Done" :> <<"D", "o", "n", "e">>) @@
    ("Skipped" :> <<"S", "k", "i", "p", "p", "e", "d">>) @@
    ("Cancelled" :> <<"C", "a", "n", "c", "e", "l", "l", "e", "d">>) @@
    ("Canceled" :> <<"C", "a", "n", "c", "e", "l", "e", "d">>) @@
    ("Suspended" :> <<"S", "u", "s", "p", "e", "n", "d", "e", "d">>) @@
    ("Paused" :> <<"P", "a", "u", "s", "e", "d">>) @@
    ("No Run" :> <<"N", "o", " ", "R", "u", "n">>)

\* STATUS_EMOJIS, each emoji named by its colour
STATUS_EMOJIS ==
    (<<"S", "u", "c", "c", "e", "e", "d", "e", "d">> :> "green") @@
    (<<"F", "a", "i", "l", "e", "d">> :> "red") @@
    (<<"R", "u", "n", "n", "i", "n", "g">> :> "yellow") @@
    (<<"N", "o", " ", "R", "u", "n">> :> "white") @@
    (<<"C", "o", "m", "p", "l", "e", "t", "e", "d">> :> "green") @@
    (<<"C", "a", "n", "c", "e", "l", "e", "d">> :> "black") @@
    (<<"S", "u", "s", "p", "e", "n", "d", "e", "d">> :> "blue") @@
    (<<"S", "k", "i", "p", "p", "e", "d">> :> "white") @@
    (<<"E", "r", "r", "o", "r">> :> "red") @@
    (<<"T", "i", "m", "e", "d", "O", "u", "t">> :> "red")

\* STATUS_EMOJIS.get("No Run", <white circle>)
NoRunFallback ==
    IF <<"N", "o", " ", "R", "u", "n">> \in DOMAIN STATUS_EMOJIS
    THEN STATUS_EMOJIS[<<"N", "o", " ", "R", "u", "n">>]
    ELSE "white"

\* lines 73-76: the keys equal to the status once both are in lower case
CaseInsensitiveKeys(chars) ==
    {key \in DOMAIN STATUS_EMOJIS : StrLower(key) = StrLower(chars)}

\* get_status_emoji(status): None and '' fall back, then the direct match,
\* then the match in lower case (no two keys of STATUS_EMOJIS are equal in
\* lower case), then the fallback
get_status_emoji(status) ==
    IF status.type # "str" \/ status.chars = <<>>
    THEN NoRunFallback
    ELSE IF status.chars \in DOMAIN STATUS_EMOJIS
    THEN STATUS_EMOJIS[status.chars]
    ELSE LET matches == CaseInsensitiveKeys(status.chars)
         IN  IF matches # {}
             THEN STATUS_EMOJIS[CHOOSE key \in matches : TRUE]
             ELSE NoRunFallback

\* Number of hour cells of the rendered matrix row.
MaxCells == 2

\* The values a cell is rendered from: None, '', a text that is no status,
\* and each status as the data spells it, in lower case and in upper case.
CellValues ==
    {NonStr("NoneType"), Str(<<>>), Str(<<"W", "e", "i", "r", "d">>)}
    \cup {Str(StatusSpelling[s]) : s \in DOMAIN StatusSpelling}
    \cup {Str(StrLower(StatusSpelling[s])) : s \in DOMAIN StatusSpelling}
    \cup {Str(StrUpper(StatusSpelling[s])) : s \in DOMAIN StatusSpelling}

\* ------------------------------------------------------------ the machine
VARIABLES
    df,        \* the caller's record table
    df0,       \* the table as the caller built it, before any call
    pc,        \* "idle", "returned"
    args,      \* arguments of the last call
    ret,       \* what the last call returned
    path,      \* the return path the last call took
    locals,    \* filtered_df, the group aggregate, display_names, bot_hour_status
    calls,     \* number of calls made
    first,     \* what the first call returned
    flow_name,     \* argument of the last call of extract_project_name
    outcome,       \* how that call ended: raised or returned, and the label
    cache,         \* the lru_cache of extract_project_name in this process
    id_order,      \* order in which this process enumerates COMMON_IDENTIFIERS
    xcalls,        \* number of calls of extract_project_name made
    first_outcome, \* how the first of them ended
    raw_df,        \* the caller's raw record table
    raw_df0,       \* that table before the call of process_data_for_dashboard
    mapping_file,  \* flow_mapping.json
    processed_df,  \* what process_data_for_dashboard returned
    ppath,         \* the return path it took
    pcalls,        \* number of calls of process_data_for_dashboard made
    session,       \* st.session_state
    session0,      \* st.session_state before the last call of safe_dashboard_reload
    clock,         \* time.time()
    called_at,     \* current_time of the last call of safe_dashboard_reload
    rpath,         \* how the last call of safe_dashboard_reload was left
    attempts,      \* the reload methods it tried, in order
    effect,        \* what it triggered: "none", "rerun", "page_reload"
    renv,          \* what it found around it
    accepted,      \* times of the calls that passed the flag and debounce tests
    rcalls,        \* number of calls of safe_dashboard_reload made
    handed_df,     \* the table main hands to create_hourly_matrix
    selection,     \* the project, status and owner selected in main
    mpath,         \* how far main got: "none", "no_data", "not_handed", "handed"
    cell_status,   \* the statuses of the hour cells of one matrix row
    cell_emoji,    \* the emojis the row was rendered with
    rendered       \* whether the row has been rendered

matrixVars == <<df, df0, pc, args, ret, path, locals, calls, first>>

extractVars == <<flow_name, outcome, cache, id_order, xcalls, first_outcome>>

normVars == <<raw_df, raw_df0, mapping_file, processed_df, ppath, pcalls>>

reloadVars == <<session, session0, clock, called_at, rpath, attempts, effect, renv, accepted, rcalls>>

mainVars == <<handed_df, selection, mpath>>

renderVars == <<cell_status, cell_emoji, rendered>>

restVars == <<reloadVars, mainVars, renderVars>>

vars == <<matrixVars, extractVars, normVars, restVars>>

NoOutcome == [raised |-> FALSE, label |-> <<>>, hit |-> FALSE]

\* No call of extract_project_name made yet.
ExtractorInit(orders) ==
    /\ flow_name = NonStr("NoneType")
    /\ outcome = NoOutcome
    /\ cache = EmptyCache
    /\ id_order \in orders
    /\ xcalls = 0
    /\ first_outcome = NoOutcome

NoArgs == [selected_project |-> "All Projects", selected_status |-> "All Statuses",
           max_rows |-> 1, verdict |-> "accept"]

\* No call of create_hourly_matrix made yet.
MatrixInit(tables) ==
    /\ df \in tables
    /\ df0 = df
    /\ pc = "idle"
    /\ args = NoArgs
    /\ ret = EmptyResult
    /\ path = "none"
    /\ locals = NoLocals
    /\ calls = 0
    /\ first = EmptyResult

\* No call of process_data_for_dashboard made yet.
NormalizerInit(tables, files) ==
    /\ raw_df \in tables
    /\ raw_df0 = raw_df
    /\ mapping_file \in files
    /\ processed_df = EmptyFrame
    /\ ppath = "none"
    /\ pcalls = 0

\* No call of safe_dashboard_reload made yet.
ReloadInit(sessions) ==
    /\ session \in sessions
    /\ session0 = session
    /\ clock = StartClock
    /\ called_at = StartClock
    /\ rpath = "none"
    /\ attempts = <<>>
    /\ effect = "none"
    /\ renv = Env("modern", "reruns", "ok", "ok")
    /\ accepted = <<>>
    /\ rcalls = 0

NoSelection ==
    [selected_project |-> AllProjects, selected_status |-> "All Statuses",
     selected_owner |-> AllOwners]

\* main has not run yet.
MainInit ==
    /\ handed_df = EmptyFrame
    /\ selection = NoSelection
    /\ mpath = "none"

\* A matrix row of hour cells, not rendered yet.
RenderInit(statuses) ==
    /\ cell_status \in [1..MaxCells -> statuses]
    /\ cell_emoji = <<>>
    /\ rendered = FALSE

\* The rest of the dashboard at rest.
RestIdle ==
    /\ RenderInit({Str(StatusSpelling["No Run"])})
    /\ MainInit
    /\ ReloadInit({[refresh_in_progress |-> FALSE,
                    last_refresh_time |-> DefaultLastRefreshTime,
                    refresh_debounce_time |-> DefaultDebounceTime,
                    last_refresh |-> StartClock]})

InitWith(tables) ==
    /\ MatrixInit(tables)
    /\ ExtractorInit({IdentifierList})
    /\ NormalizerInit({NoneDF}, {NoMappingFile})
    /\ RestIdle

Run(selected_project, selected_status, max_rows, verdict) ==
    \E out \in {create_hourly_matrix(df, selected_project, selected_status, max_rows, verdict)} :
        /\ df' = out.df
        /\ ret' = out.ret
        /\ path' = out.path
        /\ locals' = out.locals
        /\ args' = [selected_project |-> selected_project,
                    selected_status |-> selected_status,
                    max_rows |-> max_rows, verdict |-> verdict]
        /\ calls' = calls + 1
        /\ pc' = "returned"
        /\ df0' = df0
        /\ UNCHANGED <<extractVars, normVars, restVars>>

\* The caller builds the matrix from its table.
Call ==
    /\ pc = "idle"
    /\ \E a \in CallArgs : Run(a.selected_project, a.selected_status, a.max_rows, a.verdict)
    /\ first' = ret'

\* The caller builds it again from the same table with the same filters and
\* max_rows (a page refresh); the validation pass may end differently.
CallAgain ==
    /\ pc = "returned"
    /\ calls = 1
    /\ \E v \in Verdicts : Run(args.selected_project, args.selected_status, args.max_rows, v)
    /\ first' = first

Init == InitWith(InputTables(MaxRecs))

Next == Call

Spec == Init /\ [][Next]_vars

\* Two calls in a row on the same table.
InitTwice == InitWith(InputTables(MaxRecsTwice))

NextTwice == Call \/ CallAgain

SpecTwice == InitTwice /\ [][NextTwice]_vars

\* ------------------------------------- the machine of extract_project_name
\* One call of the decorated function in the current process.
RunExtract(v) ==
    \E out \in {lru_cache_call(cache, v, id_order)} :
        /\ flow_name' = v
        /\ outcome' = [raised |-> out.raised, label |-> out.label, hit |-> out.hit]
        /\ cache' = out.cache
        /\ xcalls' = xcalls + 1
        /\ id_order' = id_order
        /\ UNCHANGED <<matrixVars, normVars, restVars>>

\* A caller asks for the project of a flow name.
Extract ==
    /\ xcalls = 0
    /\ \E v \in FlowNameValues : RunExtract(v)
    /\ first_outcome' = outcome'

\* A caller asks again for the same flow name.
ExtractAgain ==
    /\ xcalls = 1
    /\ RunExtract(flow_name)
    /\ first_outcome' = first_outcome

\* The dashboard is restarted: a new interpreter process with an empty cache
\* and its own enumeration order of the identifier set.
Restart ==
    /\ xcalls = 1
    /\ cache # EmptyCache \/ outcome.raised
    /\ cache' = EmptyCache
    /\ id_order' \in IdOrders
    /\ UNCHANGED <<flow_name, outcome, xcalls, first_outcome>>
    /\ UNCHANGED <<matrixVars, normVars, restVars>>

InitExtract ==
    /\ MatrixInit({NoneDF})
    /\ ExtractorInit(IdOrders)
    /\ NormalizerInit({NoneDF}, {NoMappingFile})
    /\ RestIdle

NextExtract == Extract

SpecExtract == InitExtract /\ [][NextExtract]_vars

\* Two calls for the same flow name, in one process or across a restart.
NextExtractTwice == Extract \/ ExtractAgain \/ Restart

SpecExtractTwice == InitExtract /\ [][NextExtractTwice]_vars

\* ------------------------------- the machine of process_data_for_dashboard
\* The dashboard normalizes the raw records it fetched.
Normalize ==
    /\ pcalls = 0
    /\ \E out \in {process_data_for_dashboard(raw_df, mapping_file)} :
           /\ raw_df' = out.df
           /\ processed_df' = out.ret
           /\ ppath' = out.path
    /\ pcalls' = pcalls + 1
    /\ UNCHANGED <<raw_df0, mapping_file>>
    /\ UNCHANGED <<matrixVars, extractVars, restVars>>

InitNormalize ==
    /\ MatrixInit({NoneDF})
    /\ ExtractorInit({IdentifierList})
    /\ NormalizerInit(RawTables(MaxRawRecs), MappingFiles)
    /\ RestIdle

NextNormalize == Normalize

SpecNormalize == InitNormalize /\ [][NextNormalize]_vars

\* ------------------------------------ the machine of safe_dashboard_reload
\* A second passes.
Tick ==
    /\ clock < StartClock + MaxElapsed
    /\ clock' = clock + 1
    /\ UNCHANGED <<session, session0, called_at, rpath, attempts, effect, renv,
                   accepted, rcalls>>
    /\ UNCHANGED <<matrixVars, extractVars, normVars, mainVars, renderVars>>

\* The refresh button or the auto refresh calls safe_dashboard_reload.
Reload ==
    /\ rcalls < MaxReloadCalls
    /\ \E e \in Envs :
           \E out \in {safe_dashboard_reload(session, clock, e)} :
               /\ session' = out.ss
               /\ rpath' = out.path
               /\ attempts' = out.attempts
               /\ effect' = out.effect
               /\ renv' = e
               /\ accepted' = IF out.path \in {"skipped_in_progress", "skipped_debounce"}
                              THEN accepted
                              ELSE Append(accepted, clock)
    /\ session0' = session
    /\ called_at' = clock
    /\ rcalls' = rcalls + 1
    /\ clock' = clock
    /\ UNCHANGED <<matrixVars, extractVars, normVars, mainVars, renderVars>>

InitReload ==
    /\ MatrixInit({NoneDF})
    /\ ExtractorInit({IdentifierList})
    /\ NormalizerInit({NoneDF}, {NoMappingFile})
    /\ ReloadInit(SessionStates)
    /\ MainInit
    /\ RenderInit({Str(StatusSpelling["No Run"])})

NextReload == Tick \/ Reload

SpecReload == InitReload /\ [][NextReload]_vars

\* ------------------------------------------------- the machine of main
\* One script run of main from the loaded records to the call of
\* create_hourly_matrix.
Main ==
    /\ mpath = "none"
    /\ IF IsEmptyInput(raw_df)
       THEN /\ mpath' = "no_data"
            /\ UNCHANGED <<raw_df, processed_df, ppath, pcalls, handed_df, selection>>
       ELSE \E out \in {process_data_for_dashboard(raw_df, mapping_file)} :
            \E mapped \in {Rederive(out.ret, MappingDf(mapping_file))} :
                /\ raw_df' = out.df
                /\ processed_df' = out.ret
                /\ ppath' = out.path
                /\ pcalls' = pcalls + 1
                /\ IF IsEmptyInput(mapped)
                   THEN /\ mpath' = "not_handed"
                        /\ UNCHANGED <<handed_df, selection>>
                   ELSE \E p \in ProjectChoices(mapped, mapping_file) :
                        \E s \in {"All Statuses"} \cup ColumnValues(mapped, "taskstatus") :
                        \E o \in {AllOwners} \cup ColumnValues(mapped, "owner") :
                            /\ selection' = [selected_project |-> p, selected_status |-> s,
                                             selected_owner |-> o]
                            /\ handed_df' = ApplyFilters(mapped, p, s, o)
                            /\ mpath' = "handed"
    /\ UNCHANGED <<raw_df0, mapping_file>>
    /\ UNCHANGED <<matrixVars, extractVars, reloadVars, renderVars>>

IdleSession ==
    [refresh_in_progress |-> FALSE, last_refresh_time |-> DefaultLastRefreshTime,
     refresh_debounce_time |-> DefaultDebounceTime, last_refresh |-> StartClock]

InitMain ==
    /\ MatrixInit({NoneDF})
    /\ ExtractorInit({IdentifierList})
    /\ NormalizerInit(RawTables(MaxMainRecs), MappingFiles)
    /\ ReloadInit({IdleSession})
    /\ MainInit
    /\ RenderInit({Str(StatusSpelling["No Run"])})

NextMain == Main

SpecMain == InitMain /\ [][NextMain]_vars

\* ------------------------------------------- the machine of the renderer
\* display_matrix, lines 225-229: the hour cells of one row rendered.
RenderRow ==
    /\ ~rendered
    /\ cell_emoji' = [hour \in DOMAIN cell_status |-> get_status_emoji(cell_status[hour])]
    /\ rendered' = TRUE
    /\ UNCHANGED cell_status
    /\ UNCHANGED <<matrixVars, extractVars, normVars, reloadVars, mainVars>>

InitRender ==
    /\ MatrixInit({NoneDF})
    /\ ExtractorInit({IdentifierList})
    /\ NormalizerInit({NoneDF}, {NoMappingFile})
    /\ ReloadInit({IdleSession})
    /\ MainInit
    /\ RenderInit(CellValues)

NextRender == RenderRow

SpecRender == InitRender /\ [][NextRender]_vars

\* ================================================================ claims
\* Vocabulary of the claims, stated on the table and the arguments of the call
\* and not with the builder's own operators.

Returned == pc = "returned"

\* The call got as far as building a matrix.
Built == Returned /\ path \in {"validated", "repaired", "fallback", "validation_fault"}

FailedFamily == {"Failed", "Error", "TimedOut"}

RunningFamily == {"Running", "InProgress", "Started"}

SucceededFamily == {"Succeeded", "Completed", "Done"}

PassesProject(r) ==
    args.selected_project = "All Projects" \/ r["automation_project"] = args.selected_project

PassesStatus(r) ==
    args.selected_status = "All Statuses" \/ r["taskstatus"] = args.selected_status

\* positions, in the caller's table, of the records that pass both filters
Passing == {i \in DOMAIN df.rows : PassesProject(df.rows[i]) /\ PassesStatus(df.rows[i])}

PassingOf(k) == {i \in Passing : df.rows[i]["display_name"] = k}

PassingKeys == {df.rows[i]["display_name"] : i \in Passing}

\* positions of the passing records of display key k in hour h
CellOf(k, h) == {i \in PassingOf(k) : df.rows[i]["hour"] = h}

StatusAt(i) == df.rows[i]["taskstatus"]

PriorityAt(i) == StatusPriorityGet(StatusAt(i))

\* position of the first record of a non-empty cell whose priority is maximal
FirstMaximal(cell) ==
    CHOOSE i \in cell :
        /\ \A j \in cell : PriorityAt(j) <= PriorityAt(i)
        /\ \A j \in cell : j < i => PriorityAt(j) < PriorityAt(i)

\* C1: every cell of a returned key holds the status of the first record, in
\* input order, of maximal priority among the filtered records of that key and
\* hour (a Failed-family status when the cell has a Failed-family and a
\* Succeeded-family record), and "No Run" when the key has no record in that hour.
C1_DominantStatusPerCell ==
    Built =>
        \A n \in DOMAIN ret.names : \A ofKey \in {PassingOf(ret.names[n])} : \A h \in 0..23 :
            \A cell \in {{i \in ofKey : df.rows[i]["hour"] = h}} :
                IF cell = {}
                THEN ret.matrix[ret.names[n]][h] = "No Run"
                ELSE /\ ret.matrix[ret.names[n]][h] = StatusAt(FirstMaximal(cell))
                     /\ (/\ \E i \in cell : StatusAt(i) \in FailedFamily
                         /\ \E i \in cell : StatusAt(i) \in SucceededFamily)
                        => ret.matrix[ret.names[n]][h] \in FailedFamily

\* A returned cell whose first record succeeded and whose later record failed,
\* next to an hour without a run.
C1_Witness ==
    /\ Built
    /\ \E n \in DOMAIN ret.names : \E h \in 0..23 : \E i, j \in CellOf(ret.names[n], h) :
          /\ i < j
          /\ StatusAt(i) \in SucceededFamily
          /\ StatusAt(j) \in FailedFamily
          /\ ret.matrix[ret.names[n]][h] = StatusAt(j)
          /\ \E h2 \in 0..23 : ret.matrix[ret.names[n]][h2] = "No Run"

CountIn(k, family) == Cardinality({i \in PassingOf(k) : StatusAt(i) \in family})

\* the score of the specification for display key k
FamilyScore(k) ==
    100 * CountIn(k, FailedFamily) + 10 * CountIn(k, RunningFamily)
        + Cardinality(PassingOf(k))

\* C2: the score computed for every display-key group equals 100 x (records of
\* the Failed family) + 10 x (records of the Running family) + (records).
C2_ScoreCountsFamilies ==
    Built =>
        \A g \in DOMAIN locals.agg :
            locals.agg[g].taskstatus = FamilyScore(locals.agg[g].display_name)

\* the score the builder computed for display key k
ComputedScore(k) ==
    LET g == CHOOSE x \in DOMAIN locals.agg : locals.agg[x].display_name = k
    IN  locals.agg[g].taskstatus

\* the most recent started_at among the passing records of k
MostRecent(k) ==
    CHOOSE t \in {df.rows[i]["datetimestarted"] : i \in PassingOf(k)} :
        \A i \in PassingOf(k) : df.rows[i]["datetimestarted"] <= t

\* a ranks at least as high as b
RanksNoLower(a, b) ==
    \/ ComputedScore(a) > ComputedScore(b)
    \/ ComputedScore(a) = ComputedScore(b) /\ MostRecent(a) >= MostRecent(b)

OnlyStatus(k, s) == \A i \in PassingOf(k) : StatusAt(i) = s

C4_CapKeepsTopRanked ==
    (Built \/ (Returned /\ path = "no_data_after_filter")) =>
        /\ Len(ret.names) = Min(Cardinality(PassingKeys), args.max_rows)
        /\ Range(ret.names) \subseteq PassingKeys
        /\ Cardinality(Range(ret.names)) = Len(ret.names)
        /\ \A k \in Range(ret.names) : \A o \in PassingKeys \ Range(ret.names) :
              RanksNoLower(k, o)

\* More keys than max_rows: the key left out sorts before the key returned.
C4_Witness ==
    /\ Built
    /\ Cardinality(PassingKeys) > args.max_rows
    /\ \E k \in Range(ret.names) : \E o \in PassingKeys \ Range(ret.names) :
          KeyRank(o) < KeyRank(k)

\* C5: the keys of the returned matrix are the keys of the returned list, each
\* listed once, and every row of the matrix is defined on exactly the hours 0..23.
C5_MatrixMatchesKeyList ==
    Returned =>
        /\ DOMAIN ret.matrix = Range(ret.names)
        /\ Cardinality(Range(ret.names)) = Len(ret.names)
        /\ \A k \in DOMAIN ret.matrix : DOMAIN ret.matrix[k] = 0..23

\* A capped result: two groups pass the filters and one key is returned.
C5_Witness ==
    /\ Built
    /\ Cardinality(PassingKeys) > Len(ret.names)
    /\ Len(ret.names) >= 1

\* the sequence 0, 1, ..., 23
IsFullHours(hrs) == Len(hrs) = 24 /\ \A i \in 1..24 : hrs[i] = i - 1

\* C6: on every return path the hours component is 0, 1, ..., 23 in ascending order.
C6_HoursAlwaysZeroTo23 == Returned => IsFullHours(ret.hours)

\* The call whose hour derivation raised (no hour and no started_at column)
\* returned through the outer handler.
C6_Witness == Returned /\ path = "exception" /\ Len(df0.rows) > 0

\* the j-th smallest position of a set of positions
NthOf(S, j) == CHOOSE i \in S : Cardinality({x \in S : x <= i}) = j

\* the records at the positions S, in input order
RecordsAt(S) == [j \in 1..Cardinality(S) |-> df.rows[NthOf(S, j)]]

ByProject == {i \in DOMAIN df.rows : PassesProject(df.rows[i])}

ByStatus == {i \in DOMAIN df.rows : PassesStatus(df.rows[i])}

\* C7: the builder computes on exactly the records that pass the project filter
\* and the status filter, the intersection of what each filter selects alone,
\* whichever filter is applied first.
C7_FilterIsIntersection ==
    (Built \/ (Returned /\ path = "no_data_after_filter")) =>
        /\ locals.filtered_df = RecordsAt(ByProject \cap ByStatus)
        /\ locals.filtered_df =
              filtered_df(filtered_df(df.rows, args.selected_project, "All Statuses"),
                          "All Projects", args.selected_status)
        /\ locals.filtered_df =
              filtered_df(filtered_df(df.rows, "All Projects", args.selected_status),
                          args.selected_project, "All Statuses")

\* Both filters set; a record passes both and another passes one of them only.
C7_Witness ==
    /\ Built
    /\ args.selected_project # "All Projects"
    /\ args.selected_status # "All Statuses"
    /\ ByProject \cap ByStatus # {}
    /\ (ByProject \ ByStatus) \cup (ByStatus \ ByProject) # {}

IsEmptyTriple(r) == r.matrix = EmptyDict /\ r.names = <<>> /\ IsFullHours(r.hours)

\* the input is null or has no record
InputEmpty == df0.kind = "None" \/ Len(df0.rows) = 0

\* C8 as stated: a null or empty input, an input that lacks one of the
\* builder's required columns, or one of which no record passes the filters
\* gives an empty matrix, an empty key list and the full hours.
C8_EmptyOnAnyMissingColumn ==
    Returned =>
        ((InputEmpty \/ ~ (required_columns \subseteq df0.columns) \/ Passing = {})
            => IsEmptyTriple(ret))

\* C8, amended: the same for an input that lacks a required column other than
\* hour; a missing hour column is derived from started_at and the matrix is built.
C8_EmptyOnMissingInput ==
    Returned =>
        /\ (InputEmpty \/ ~ (required_columns \ {"hour"} \subseteq df0.columns) \/ Passing = {})
              => IsEmptyTriple(ret)
        /\ (/\ ~ InputEmpty
            /\ required_columns \ {"hour"} \subseteq df0.columns
            /\ Passing # {})
              => Built /\ ret.names # <<>>

\* A table with records and no display_name column was answered with the
\* empty triple.
C8_Witness ==
    /\ Returned
    /\ ~ InputEmpty
    /\ "display_name" \notin df0.columns
    /\ path = "missing_columns"
    /\ IsEmptyTriple(ret)

\* C9: whatever the validation pass does with a built matrix, the builder
\* returns a (matrix, keys, hours) triple; when the pass raises or rejects
\* without a usable structure, the triple is the builder's own matrix, key list
\* and hours.
C9_ValidationNeverLosesResult ==
    Built =>
        /\ DOMAIN ret = {"matrix", "names", "hours"}
        /\ args.verdict = "raise" <=> path = "validation_fault"
        /\ args.verdict = "reject" <=> path = "fallback"
        /\ args.verdict \in {"raise", "reject"} =>
              /\ ret.matrix = locals.bot_hour_status
              /\ ret.names = locals.display_names
              /\ IsFullHours(ret.hours)
              /\ ret.names # <<>>

\* The validation pass raised on a matrix of two keys.
C9_Witness ==
    /\ Built
    /\ args.verdict = "raise"
    /\ Len(ret.names) = 2

\* C10: a second call with the same table, filters and max_rows returns the
\* matrix, key list and hours of the first call.
C10_SecondCallSameResult == calls = 2 => ret = first

\* The first call added the hour column to the caller's table, the second
\* call found it there, and both built a matrix.
C10_Witness ==
    /\ calls = 2
    /\ Built
    /\ "hour" \notin df0.columns
    /\ "hour" \in df.columns

\* C11: the call leaves the caller's record table as it was: no column is
\* added, changed or removed, on any return path.
C11_CallerTableUnchanged == Returned => df = df0

\* ------------------------------------------------ extract_project_name
\* Vocabulary on character strings, stated on positions of the name.

Capitals == Range(UpperLetters)

Smalls == Range(LowerLetters)

Letters == Capitals \cup Smalls

Separators == {"_", " ", "-"}

\* the same character, or the same letter in the other case
AlphabetPosition ==
    [c \in Letters |->
        CHOOSE i \in DOMAIN UpperLetters : c = UpperLetters[i] \/ c = LowerLetters[i]]

SameIgnoringCase(c, d) ==
    c = d \/ (c \in Letters /\ d \in Letters /\ AlphabetPosition[c] = AlphabetPosition[d])

\* t occurs in s at position i
OccursAt(s, t, i) == i >= 1 /\ i + Len(t) - 1 <= Len(s) /\ SubSeq(s, i, i + Len(t) - 1) = t

Occurs(s, t) == \E i \in 1..Len(s) : OccursAt(s, t, i)

\* t occurs in s, letters compared without regard to case
OccursIgnoringCase(s, t) ==
    \E i \in 1..Len(s) :
        /\ i + Len(t) - 1 <= Len(s)
        /\ \A j \in 1..Len(t) : SameIgnoringCase(s[i + j - 1], t[j])

\* w is t without its leading and trailing blanks
IsTrimOf(w, t) ==
    IF \A i \in DOMAIN t : t[i] = " " THEN w = <<>>
    ELSE \E a \in DOMAIN t : \E b \in a..Len(t) :
            /\ t[a] # " " /\ t[b] # " "
            /\ \A j \in DOMAIN t : (j < a \/ j > b) => t[j] = " "
            /\ w = SubSeq(t, a, b)

\* w is the trimmed text before the first occurrence of sep in s
IsTextBeforeFirst(w, s, sep) ==
    \E i \in 1..Len(s) :
        /\ OccursAt(s, sep, i)
        /\ \A j \in 1..(i - 1) : ~OccursAt(s, sep, j)
        /\ IsTrimOf(w, SubSeq(s, 1, i - 1))

\* w is the leading token of s made of one capital and the lowercase letters
\* that follow it, at least one
IsLeadingCapitalToken(w, s) ==
    \E n \in 2..Len(s) :
        /\ s[1] \in Capitals
        /\ \A j \in 2..n : s[j] \in Smalls
        /\ n = Len(s) \/ s[n + 1] \notin Smalls
        /\ w = SubSeq(s, 1, n)

\* w is the first blank-delimited word of s, longer than 2 and starting with
\* a capital
IsCapitalizedFirstWord(w, s) ==
    \E n \in 3..Len(s) :
        /\ s[1] \in Capitals
        /\ \A j \in 1..n : s[j] # " "
        /\ n = Len(s) \/ s[n + 1] = " "
        /\ w = SubSeq(s, 1, n)

\* s[a..b] is a segment of s split on '_', blank or '-' (b = a - 1: an empty
\* segment)
IsSegment(s, a, b) ==
    /\ a = 1 \/ s[a - 1] \in Separators
    /\ b = Len(s) \/ s[b + 1] \in Separators
    /\ \A j \in a..b : s[j] \notin Separators

HoldsIdentifier(w) == \E id \in COMMON_IDENTIFIERS : OccursIgnoringCase(w, id)

\* w is a segment of s that contains a known identifier
IsIdentifierSegment(w, s) ==
    \E a \in 1..Len(s) : \E b \in a..Len(s) :
        IsSegment(s, a, b) /\ w = SubSeq(s, a, b) /\ HoldsIdentifier(w)

\* s[a..b] is a maximal run of letters of length 3 or more
IsLetterRun(s, a, b) ==
    /\ b - a + 1 >= 3
    /\ \A j \in a..b : s[j] \in Letters
    /\ a = 1 \/ s[a - 1] \notin Letters
    /\ b = Len(s) \/ s[b + 1] \notin Letters

\* w is the first run of 3 or more letters of s
IsFirstLetterRun(w, s) ==
    \E a \in 1..Len(s) : \E b \in a..Len(s) :
        /\ IsLetterRun(s, a, b)
        /\ w = SubSeq(s, a, b)
        /\ \A c \in 1..(a - 1) : \A d \in c..Len(s) : ~IsLetterRun(s, c, d)

\* The first rule of the cascade that matches s: 7 when none of 1..6 does.
FirstMatchingRule(s) ==
    IF Occurs(s, <<" ", "-", " ">>) THEN 1
    ELSE IF Occurs(s, <<"_">>) THEN 2
    ELSE IF \E n \in 2..Len(s) : IsLeadingCapitalToken(SubSeq(s, 1, n), s) THEN 3
    ELSE IF \E n \in 3..Len(s) : IsCapitalizedFirstWord(SubSeq(s, 1, n), s) THEN 4
    ELSE IF HoldsIdentifier(s) THEN 5
    ELSE IF \E a \in 1..Len(s) : \E b \in a..Len(s) : IsLetterRun(s, a, b) THEN 6
    ELSE 7

\* w is a result of rule k on s
IsResultOfRule(w, k, s) ==
    CASE k = 1 -> IsTextBeforeFirst(w, s, <<" ", "-", " ">>)
      [] k = 2 -> IsTextBeforeFirst(w, s, <<"_">>)
      [] k = 3 -> IsLeadingCapitalToken(w, s)
      [] k = 4 -> IsCapitalizedFirstWord(w, s)
      [] k = 5 -> IsIdentifierSegment(w, s)
      [] k = 6 -> IsFirstLetterRun(w, s)
      [] OTHER -> w = <<"U", "n", "k", "n", "o", "w", "n">>

\* The first call returned a label for a string that is not blank.
LabelledName ==
    /\ xcalls = 1
    /\ flow_name.type = "str"
    /\ \E i \in DOMAIN flow_name.chars : flow_name.chars[i] # " "
    /\ ~outcome.raised

\* C12: for a string that is not blank, the label returned is the result, on
\* the trimmed name, of the first rule of the cascade that matches it.
C12_FirstMatchingRuleWins ==
    (xcalls = 1 /\ flow_name.type = "str"
        /\ \E i \in DOMAIN flow_name.chars : flow_name.chars[i] # " ")
    => /\ ~outcome.raised
       /\ \E a \in DOMAIN flow_name.chars : \E b \in a..Len(flow_name.chars) :
              /\ IsTrimOf(SubSeq(flow_name.chars, a, b), flow_name.chars)
              /\ \A s \in {SubSeq(flow_name.chars, a, b)} :
                     IsResultOfRule(outcome.label, FirstMatchingRule(s), s)
       /\ flow_name.chars = <<"A","M","Z","_","I","n","v","o","i","c","e","_",
                              "P","r","o","c","e","s","s","o","r">>
          => outcome.label = <<"A", "M", "Z">>
       /\ flow_name.chars = <<"F","i","n","a","n","c","e"," ","-"," ",
                              "D","a","i","l","y"," ","R","e","p","o","r","t">>
          => outcome.label = <<"F", "i", "n", "a", "n", "c", "e">>
       /\ flow_name.chars = <<"x", "y", "z", "1", "2", "3">>
          => outcome.label = <<"x", "y", "z">>

\* 'AMZ_Invoice_Processor' gave 'AMZ': the underscore rule answered although
\* the name also holds a known identifier and a run of letters.
C12_Witness ==
    /\ LabelledName
    /\ flow_name.chars = <<"A","M","Z","_","I","n","v","o","i","c","e","_",
                           "P","r","o","c","e","s","s","o","r">>
    /\ outcome.label = <<"A", "M", "Z">>

\* The name of the last call without its leading and trailing blanks.
NameText ==
    CHOOSE w \in {SubSeq(flow_name.chars, a, b) :
                     a \in DOMAIN flow_name.chars, b \in DOMAIN flow_name.chars} :
        IsTrimOf(w, flow_name.chars)

\* C13: when rules 1-4 do not match and the name holds a known identifier,
\* the label is the leftmost segment of the name that holds a known
\* identifier.
C13_LeftmostIdentifierSegment ==
    (LabelledName /\ FirstMatchingRule(NameText) = 5)
    => \A s \in {NameText} :
           \E a \in 1..Len(s) : \E b \in a..Len(s) :
               /\ IsSegment(s, a, b)
               /\ HoldsIdentifier(SubSeq(s, a, b))
               /\ outcome.label = SubSeq(s, a, b)
               /\ \A c \in 1..(a - 1) : \A d \in c..(a - 1) :
                      ~(IsSegment(s, c, d) /\ HoldsIdentifier(SubSeq(s, c, d)))

C15_NeverRaises ==
    xcalls = 1
    => /\ ~outcome.raised
       /\ (flow_name.type # "str" \/ \A i \in DOMAIN flow_name.chars : flow_name.chars[i] = " ")
          => outcome.label = <<"U", "n", "k", "n", "o", "w", "n">>

\* ------------------------------------------- process_data_for_dashboard
\* The call returned the normalized records.
Normalized == pcalls = 1 /\ ppath = "processed"

\* The call returned an empty table.
ReturnedEmpty == pcalls = 1 /\ processed_df.columns = {} /\ processed_df.rows = <<>>

DateTexts == {"2024-01-01 01:00", "2024-01-02 02:00"}

\* The raw table has records, every required column, and dates that parse.
WellFormedRaw ==
    /\ raw_df0.kind = "DataFrame"
    /\ {"flowname", "flowowner", "taskstatus", "datetimestarted", "wassuccessful"}
           \subseteq raw_df0.columns
    /\ raw_df0.rows # <<>>
    /\ \A i \in DOMAIN raw_df0.rows : raw_df0.rows[i]["datetimestarted"] \in DateTexts

OtherLabel == <<"O", "t", "h", "e", "r", " ", "C", "l", "o", "u", "d", " ", "F", "l", "o", "w">>

\* the entries of the lookup table whose key is the trimmed flow name f
EntriesFor(f) ==
    IF mapping_file.loaded
    THEN {k \in DOMAIN mapping_file.entries : IsTrimOf(k, f)}
    ELSE {}

\* C16: every normalized record carries the project of the lookup entry whose
\* key is its trimmed flow name, letter case respected, and "Other Cloud
\* Flow" when there is no such entry; without a lookup table a well-formed
\* input is still normalized, every record labelled "Other Cloud Flow".
C16_ProjectFromLookupOnly ==
    /\ Normalized
       => /\ Len(processed_df.rows) = Len(raw_df0.rows)
          /\ \A i \in DOMAIN raw_df0.rows :
                 \A keys \in {EntriesFor(raw_df0.rows[i]["flowname"])} :
                     IF keys = {}
                     THEN processed_df.rows[i]["automation_project"] = OtherLabel
                     ELSE \E k \in keys :
                              processed_df.rows[i]["automation_project"]
                                  = mapping_file.entries[k].project
    /\ (pcalls = 1 /\ WellFormedRaw /\ ~mapping_file.loaded)
       => /\ Normalized
          /\ \A i \in DOMAIN processed_df.rows :
                 processed_df.rows[i]["automation_project"] = OtherLabel

\* With a lookup table holding 'C', the record of flow ' C' got its project
\* and the record of flow 'c' got "Other Cloud Flow".
C16_Witness ==
    /\ Normalized
    /\ mapping_file.loaded
    /\ Len(raw_df0.rows) = 2
    /\ raw_df0.rows[1]["flowname"] = <<" ", "C">>
    /\ processed_df.rows[1]["automation_project"] = <<"G">>
    /\ raw_df0.rows[2]["flowname"] = <<"c">>
    /\ processed_df.rows[2]["automation_project"] = OtherLabel

\* the static table's value for status s, 0 for a status it does not list
TablePriority(s) == IF s \in DOMAIN STATUS_PRIORITY THEN STATUS_PRIORITY[s] ELSE 0

\* C17 as stated: every normalized record carries the table's priority of its
\* raw status, 0 for a status the table does not list, and such a status is
\* left as it is.
C17_UnknownStatusKept ==
    Normalized
    => \A i \in DOMAIN raw_df0.rows :
           /\ processed_df.rows[i]["status_priority"]
                  = TablePriority(raw_df0.rows[i]["taskstatus"])
           /\ raw_df0.rows[i]["taskstatus"] \notin DOMAIN STATUS_PRIORITY
              => processed_df.rows[i]["taskstatus"] = raw_df0.rows[i]["taskstatus"]

\* C17, amended: every normalized record carries the table's priority of its
\* raw status, 0 for a status the table does not list; a listed status is
\* kept and an unlisted one is rewritten to "No Run".
C17_UnknownStatusBecomesNoRun ==
    Normalized
    => \A i \in DOMAIN raw_df0.rows :
           /\ processed_df.rows[i]["status_priority"]
                  = TablePriority(raw_df0.rows[i]["taskstatus"])
           /\ processed_df.rows[i]["taskstatus"]
                  = IF raw_df0.rows[i]["taskstatus"] \in DOMAIN STATUS_PRIORITY
                    THEN raw_df0.rows[i]["taskstatus"]
                    ELSE "No Run"

\* A record with the unlisted status 'Weird' was normalized next to one with
\* a listed status.
C17_Witness ==
    /\ Normalized
    /\ \E i \in DOMAIN raw_df0.rows :
           /\ raw_df0.rows[i]["taskstatus"] = "Weird"
           /\ processed_df.rows[i]["taskstatus"] = "No Run"
           /\ processed_df.rows[i]["status_priority"] = 0
    /\ \E i \in DOMAIN raw_df0.rows :
           /\ raw_df0.rows[i]["taskstatus"] = "Succeeded"
           /\ processed_df.rows[i]["status_priority"] = 60

\* C18: two normalized records have the same display name exactly when they
\* have the same owner label, the same project and the same flow name.
C18_DisplayNameIdentifiesGroup ==
    Normalized
    => \A i \in DOMAIN processed_df.rows : \A j \in DOMAIN processed_df.rows :
           (processed_df.rows[i]["display_name"] = processed_df.rows[j]["display_name"])
           <=> /\ processed_df.rows[i]["owner"] = processed_df.rows[j]["owner"]
               /\ processed_df.rows[i]["automation_project"]
                      = processed_df.rows[j]["automation_project"]
               /\ processed_df.rows[i]["flowname"] = processed_df.rows[j]["flowname"]

\* C19: after the call, whichever way it ended, the caller's raw table has
\* the columns and the values it had before.
C19_RawTableUnchanged ==
    pcalls = 1
    => /\ raw_df.kind = raw_df0.kind
       /\ raw_df.columns = raw_df0.columns
       /\ raw_df.rows = raw_df0.rows

\* A call that rewrote a status and added columns in what it returned.
C19_Witness ==
    /\ Normalized
    /\ raw_df0.rows[1]["taskstatus"] = "Weird"
    /\ processed_df.rows[1]["taskstatus"] = "No Run"
    /\ "display_name" \in processed_df.columns
    /\ raw_df.rows[1]["taskstatus"] = "Weird"

\* The raw table is null or has no record.
RawEmpty == raw_df0.kind = "None" \/ raw_df0.rows = <<>>

\* The raw table lacks a required column.
RawLacksColumn ==
    \E c \in {"flowname", "flowowner", "taskstatus", "datetimestarted", "wassuccessful"} :
        c \notin raw_df0.columns

\* C20: for a raw table that is null or empty or lacks a required column the
\* call returns, and what it returns is an empty table.
C20_EmptyOnMissingInput ==
    (pcalls = 1 /\ (RawEmpty \/ RawLacksColumn))
    => /\ ppath \in {"empty_input", "exception"}
       /\ ReturnedEmpty

\* A table with a record and every required column but wassuccessful: the
\* call got as far as the success rate and returned an empty table.
C20_Witness ==
    /\ pcalls = 1
    /\ raw_df0.rows # <<>>
    /\ raw_df0.columns = {"flowname", "flowowner", "taskstatus", "datetimestarted"}
    /\ ppath = "exception"
    /\ ReturnedEmpty

\* The raw table has records and every required column.
RawComplete ==
    /\ raw_df0.kind = "DataFrame"
    /\ {"flowname", "flowowner", "taskstatus", "datetimestarted", "wassuccessful"}
           \subseteq raw_df0.columns
    /\ raw_df0.rows # <<>>

FlagTexts == {"1", "0"}

\* C21: a value of one record that cannot be parsed does not fail the call:
\* every record whose date parses comes back normalized, with success rate 0
\* when its flag cannot be parsed, whatever the other records hold.
C21_CoercionErrorNotPropagated ==
    (pcalls = 1 /\ RawComplete)
    => \A i \in DOMAIN raw_df0.rows :
           raw_df0.rows[i]["datetimestarted"] \in DateTexts
           => \E j \in DOMAIN processed_df.rows :
                  /\ processed_df.rows[j]["flowname"] = raw_df0.rows[i]["flowname"]
                  /\ processed_df.rows[j]["flowowner"] = raw_df0.rows[i]["flowowner"]
                  /\ "success_rate" \in DOMAIN processed_df.rows[j]
                  /\ raw_df0.rows[i]["wassuccessful"] \notin FlagTexts
                     => processed_df.rows[j]["success_rate"] = 0

\* ------------------------------------------------- safe_dashboard_reload
\* A call of safe_dashboard_reload has returned or has been left by the
\* rerun it issued.
Reloaded == rcalls >= 1

PriorAccepted ==
    IF rpath \in {"skipped_in_progress", "skipped_debounce"}
    THEN accepted
    ELSE SubSeq(accepted, 1, Len(accepted) - 1)

\* C23: a call made less than refresh_debounce_time after the last accepted
\* call tries no reload method, triggers nothing and leaves last_refresh_time
\* as it was; accepted calls are at least refresh_debounce_time apart.
C23_Debounce ==
    /\ (Reloaded /\ PriorAccepted # <<>>
          /\ called_at - PriorAccepted[Len(PriorAccepted)] < session0.refresh_debounce_time)
       => /\ attempts = <<>>
          /\ effect = "none"
          /\ session.last_refresh_time = session0.last_refresh_time
    /\ \A i \in 1..(Len(accepted) - 1) :
           accepted[i + 1] - accepted[i] >= session.refresh_debounce_time

\* A call one second after an accepted one was skipped, and two calls were
\* accepted before it.
C23_Witness ==
    /\ rcalls = 3
    /\ Len(accepted) = 2
    /\ rpath = "skipped_debounce"
    /\ called_at - accepted[2] = 1

\* the reload methods of the API, in the documented order
DocumentedMethods(api) ==
    CASE api = "legacy" -> <<"st.experimental_rerun", "javascript">>
      [] api = "transition" -> <<"st.rerun", "st.experimental_rerun", "javascript">>
      [] api = "modern" -> <<"st.rerun", "javascript">>

\* C24: a call that tries to reload starts with the first documented method
\* and, when that one fails, goes on to the next documented method.
C24_MethodsInDocumentedOrder ==
    (Reloaded /\ attempts # <<>>)
    => /\ attempts[1] = DocumentedMethods(renv.api)[1]
       /\ IF renv.rerun \in {"RuntimeError", "ImportError", "Exception"}
          THEN Len(attempts) >= 2 /\ attempts[2] = DocumentedMethods(renv.api)[2]
          ELSE Len(attempts) = 1

\* C25: a call that finds refresh_in_progress True tries no reload method,
\* triggers nothing and leaves the session state, the flag included, as it
\* was.
C25_InProgressCallChangesNothing ==
    (Reloaded /\ session0.refresh_in_progress)
    => /\ attempts = <<>>
       /\ effect = "none"
       /\ session = session0

\* ---------------------------------------------------------------- main
\* main handed a table to create_hourly_matrix.
Handed == mpath = "handed"

Bar == <<" ", "|", " ">>

\* The display name d reads owner | project | flow.
ShowsProject(d, owner, project, flow) == d = owner \o Bar \o project \o Bar \o flow

\* C26: every record main hands to create_hourly_matrix shows, as the project
\* part of its display name, the project held in its automation_project
\* field, the field the project filter selects on.
C26_DisplayedProjectIsFilteredProject ==
    Handed
    => \A i \in DOMAIN handed_df.rows :
           ShowsProject(handed_df.rows[i]["display_name"],
                        handed_df.rows[i]["owner"],
                        handed_df.rows[i]["automation_project"],
                        handed_df.rows[i]["flowname"])

\* ------------------------------------------------------------ the renderer
\* Cell i of the rendered row holds the status s of the priority table, as
\* the table spells it.
CellHolds(i, s) ==
    cell_status[i].type = "str" /\ cell_status[i].chars = StatusSpelling[s]

\* The families that must not look like an hour without a run.
VisibleFamilies == {100, 80, 60}

\* C27: two cells holding statuses of the same priority are rendered with
\* the same emoji, and a cell holding a status of the Failed, Running or
\* Succeeded family is not rendered with the white circle of "No Run".
C27_FamilyRenderedAlike ==
    rendered
    => \A i \in DOMAIN cell_status : \A s \in DOMAIN STATUS_PRIORITY :
           CellHolds(i, s)
           => /\ \A j \in DOMAIN cell_status : \A t \in DOMAIN STATUS_PRIORITY :
                     (CellHolds(j, t) /\ STATUS_PRIORITY[s] = STATUS_PRIORITY[t])
                     => cell_emoji[i] = cell_emoji[j]
              /\ STATUS_PRIORITY[s] \in VisibleFamilies => cell_emoji[i] # "white"

\* ------------------------------------------------- extract_project_name
\* C28: the label a call returns is never the empty string.
C28_LabelNeverEmpty ==
    (xcalls = 1 /\ ~outcome.raised) => Len(outcome.label) > 0

====
